---- MODULE Spec2Model ----
(***************************************************************************)
(* Model of src-tauri/src/lib.rs of Yap: backend sidecar supervision       *)
(* (port selection, spawn, output draining, kill on exit) and the global   *)
(* shortcut for toggle_recording (startup registration, update_shortcut,   *)
(* persistence in the settings store).                                     *)
(*                                                                         *)
(* Strings are sequences of one-character strings, so that to_uppercase    *)
(* and the match tables of parse_modifiers / parse_key are computed.       *)
(***************************************************************************)
EXTENDS Integers, Sequences, FiniteSets, TLC

\* ------------------------------------------------------------------ bounds
MaxUpdates == 2
MaxExits == 2
MaxRestarts == 1

\* --------------------------------------------------------------- constants
FixedPort == 8765

EphemeralPorts == {49152, 49153}

\* ----------------------------------------------------------------- strings
LowerLetters ==
  <<"a","b","c","d","e","f","g","h","i","j","k","l","m",
    "n","o","p","q","r","s","t","u","v","w","x","y","z">>

UpperLetters ==
  <<"A","B","C","D","E","F","G","H","I","J","K","L","M",
    "N","O","P","Q","R","S","T","U","V","W","X","Y","Z">>

UpperChar(c) ==
  IF \E i \in 1..26 : LowerLetters[i] = c
    THEN UpperLetters[CHOOSE i \in 1..26 : LowerLetters[i] = c]
    ELSE c

to_uppercase(s) == [i \in 1..Len(s) |-> UpperChar(s[i])]

\* ------------------------------------------------------- parse_modifiers
ModifierFlag(m) ==
  LET u == to_uppercase(m) IN
  CASE u \in {<<"A","L","T">>, <<"O","P","T","I","O","N">>} -> {"ALT"}
    [] u \in {<<"C","T","R","L">>, <<"C","O","N","T","R","O","L">>} -> {"CONTROL"}
    [] u = <<"S","H","I","F","T">> -> {"SHIFT"}
    [] u \in {<<"M","E","T","A">>, <<"S","U","P","E","R">>,
              <<"C","M","D">>, <<"C","O","M","M","A","N","D">>} -> {"META"}
    [] OTHER -> {}

RECURSIVE parse_modifiers(_)
parse_modifiers(modifiers) ==
  IF modifiers = <<>> THEN {}
  ELSE ModifierFlag(Head(modifiers)) \cup parse_modifiers(Tail(modifiers))

\* ------------------------------------------------------------- parse_key
NoCode == <<>>

FunctionKeyNames ==
  { <<"F","1">>, <<"F","2">>, <<"F","3">>, <<"F","4">>, <<"F","5">>, <<"F","6">>,
    <<"F","7">>, <<"F","8">>, <<"F","9">>, <<"F","1","0">>, <<"F","1","1">>,
    <<"F","1","2">> }

LetterKeyNames == { <<UpperLetters[i]>> : i \in 1..26 }

\* parse_key accepting any single character as a key.
parse_key_any_char(key) ==
  LET u == to_uppercase(key) IN
  IF u \in FunctionKeyNames THEN u
  ELSE IF Len(u) = 1 THEN <<"Key">> \o u
  ELSE NoCode

parse_key(key) ==
  LET u == to_uppercase(key) IN
  IF u \in FunctionKeyNames THEN u
  ELSE IF u \in LetterKeyNames THEN <<"Key">> \o u
  ELSE NoCode

CodeF5 == <<"F","5">>

Shortcut(mods, code) == [mods |-> mods, code |-> code]

DefaultShortcut == Shortcut({"ALT"}, CodeF5)

NoShortcut == Shortcut({}, NoCode)

\* ------------------------------------------------------ inputs of the model
Alt == <<"A","l","t">>
Ctrl == <<"C","t","r","l">>
Shift == <<"S","h","i","f","t">>
Banana == <<"B","a","n","a","n","a">>

ModifierInputs == { <<Alt>>, <<Ctrl, Shift>>, <<Banana>> }

KeyInputs == { <<"F","5">>, <<"a">>, <<"1">> }

\* ------------------------------------------------- ShortcutConfig / store
\* One entry of the store under SHORTCUTS_KEY: absent, a JSON value that does
\* not deserialize as ShortcutsSettings, or settings with a ShortcutConfig.
StoreValue(kind, modifiers, key) == [kind |-> kind, modifiers |-> modifiers, key |-> key]

AbsentValue == StoreValue("absent", <<>>, <<>>)

GarbageValue == StoreValue("garbage", <<>>, <<>>)

\* A settings value that loses the modifiers.
SettingsValueNoModifiers(modifiers, key) == StoreValue("settings", <<>>, key)

\* serde_json::to_value(ShortcutsSettings { toggle_recording: Some(config) })
SettingsValue(modifiers, key) == StoreValue("settings", modifiers, key)

InitialStoreValues ==
  { AbsentValue, GarbageValue,
    SettingsValue(<<Ctrl>>, <<"1">>),
    SettingsValue(<<Ctrl, Shift>>, <<"A">>) }

\* store.get(SHORTCUTS_KEY).and_then(from_value(..).ok()).unwrap_or_default():
\* TRUE iff the result has toggle_recording = Some(config)
HasConfig(value) == value.kind = "settings"

\* The shortcut the startup routine builds from the stored value.
LoadShortcut(value) ==
  IF HasConfig(value)
    THEN Shortcut(parse_modifiers(value.modifiers),
                  IF parse_key(value.key) = NoCode THEN CodeF5 ELSE parse_key(value.key))
    ELSE Shortcut({"ALT"}, CodeF5)

\* The closure installed by on_shortcut: number of toggle_recording events
\* it emits for one key event.
HandlerEmitsAlways(state) == 1

HandlerEmits(state) == IF state = "Pressed" THEN 1 ELSE 0

\* ------------------------------------------------------------------- state
VARIABLES
  pc,             \* position of the process: start, spawn, shortcut, running, exiting, aborted
  dev,            \* cfg!(debug_assertions)
  port,           \* local `port` of the setup closure
  portState,      \* PortState.port
  portWrites,     \* writes to PortState.port since construction
  child,          \* SidecarState.child: "None" or "Some"
  spawned,        \* a child was spawned in this run
  childEnvPort,   \* VOCISTANT_PORT given to the child
  childAlive,     \* the child process runs
  drain,          \* sidecar output task: none, running, stopped
  lastLog,        \* severity of the last backend line logged
  killRequests,   \* calls of child.kill() in this run
  exitRuns,       \* runs of the RunEvent::Exit handler in this run
  registered,     \* OS-level registrations (shortcut -> handler), as the set of shortcuts
  current,        \* shortcut of the last successful on_shortcut, NoShortcut after unregister_all
  storeCache,     \* in-memory value of the store under SHORTCUTS_KEY
  storeDisk,      \* value in settings.json under SHORTCUTS_KEY
  abortCause,     \* why setup returned Err
  startupValue,   \* stored value the startup routine read
  startupShortcut,\* shortcut the startup routine built
  freshStart,     \* no update_shortcut got past parsing since startup registered
  upc,            \* position inside update_shortcut: idle, unregister, register, persist
  callSeq,        \* update_shortcut calls made (all runs)
  callMods,       \* arguments of the last update_shortcut call
  callKey,
  newShortcut,    \* local new_shortcut of update_shortcut
  lastResult,     \* result of the last update_shortcut call
  prevRegistered, \* registrations / store when the last call began
  prevDisk,
  prevCache,
  lastUpdateOk,   \* shortcut registered by the last update_shortcut that returned Ok(())
  ev,             \* key event delivered since the last command, and what it emitted
  hasRead,        \* get_backend_port was invoked in this run
  lastRead,       \* its last return value
  lastReadWrites, \* portWrites when it was invoked
  restarts

vars ==
  << pc, dev, port, portState, portWrites, child, spawned, childEnvPort, childAlive,
     drain, lastLog, killRequests, exitRuns, registered, current, storeCache, storeDisk,
     abortCause, startupValue, startupShortcut, freshStart, upc, callSeq, callMods,
     callKey, newShortcut, lastResult, prevRegistered, prevDisk, prevCache, lastUpdateOk,
     ev, hasRead, lastRead, lastReadWrites, restarts >>

sidecarVars == << child, spawned, childEnvPort, childAlive, drain, lastLog, killRequests, exitRuns >>

portVars == << port, portState, portWrites >>

readVars == << hasRead, lastRead, lastReadWrites >>

storeVars == << storeCache, storeDisk >>

startupVars == << abortCause, startupValue, startupShortcut >>

callVars == << callSeq, callMods, callKey, newShortcut, prevRegistered, prevDisk, prevCache >>

NoEvent == [valid |-> FALSE, shortcut |-> NoShortcut, state |-> "Released",
            emitted |-> 0, current |-> NoShortcut]

\* State of a freshly constructed process (tauri::Builder ... .manage(..)).
Fresh(disk) ==
  /\ pc = "start"
  /\ port = FixedPort
  /\ portState = FixedPort
  /\ portWrites = 0
  /\ child = "None"
  /\ spawned = FALSE
  /\ childEnvPort = FixedPort
  /\ childAlive = FALSE
  /\ drain = "none"
  /\ lastLog = "none"
  /\ killRequests = 0
  /\ exitRuns = 0
  /\ registered = {}
  /\ current = NoShortcut
  /\ storeCache = disk
  /\ storeDisk = disk
  /\ abortCause = "none"
  /\ startupValue = AbsentValue
  /\ startupShortcut = NoShortcut
  /\ freshStart = FALSE
  /\ upc = "idle"
  /\ newShortcut = NoShortcut
  /\ lastResult = "none"
  /\ prevRegistered = {}
  /\ prevDisk = disk
  /\ prevCache = disk
  /\ ev = NoEvent
  /\ hasRead = FALSE
  /\ lastRead = FixedPort
  /\ lastReadWrites = 0

Init ==
  /\ dev \in BOOLEAN
  /\ \E disk \in InitialStoreValues : Fresh(disk)
  /\ callSeq = 0
  /\ callMods = <<>>
  /\ callKey = <<>>
  /\ lastUpdateOk = NoShortcut
  /\ restarts = 0

\* ----------------------------------------------------------- setup closure
\* find_available_port().unwrap_or(8765): an OS-assigned port, or the
\* fallback when binding fails.
PortChoices == IF dev THEN {FixedPort} ELSE EphemeralPorts \cup {FixedPort}

SelectPort ==
  /\ pc = "start"
  /\ \E p \in PortChoices :
       /\ port' = p
       /\ portState' = p
  /\ portWrites' = portWrites + 1
  /\ pc' = "spawn"
  /\ UNCHANGED << dev, sidecarVars, registered, current, storeVars, startupVars, freshStart,
                  upc, callVars, lastResult, lastUpdateOk, ev, readVars, restarts >>

\* resource_dir() and spawn(): either failure makes setup return Err.
SpawnSidecar ==
  /\ pc = "spawn"
  /\ \E ok \in BOOLEAN :
       IF ok
         THEN /\ child' = "Some"
              /\ spawned' = TRUE
              /\ childEnvPort' = port
              /\ childAlive' = TRUE
              /\ drain' = "running"
              /\ pc' = "shortcut"
              /\ UNCHANGED abortCause
         ELSE /\ pc' = "aborted"
              /\ abortCause' = "spawn"
              /\ UNCHANGED << child, spawned, childEnvPort, childAlive, drain >>
  /\ UNCHANGED << dev, portVars, lastLog, killRequests, exitRuns, registered, current,
                  storeVars, startupValue, startupShortcut, freshStart, upc, callVars,
                  lastResult, lastUpdateOk, ev, readVars, restarts >>

\* app.store(STORE_PATH)?, load the settings, on_shortcut(shortcut, handler)?
RegisterStartupShortcut ==
  /\ pc = "shortcut"
  /\ \E accepted \in BOOLEAN, storeOpens \in BOOLEAN :
       IF ~storeOpens
         THEN /\ pc' = "aborted"
              /\ abortCause' = "store"
              /\ UNCHANGED << registered, current, startupValue, startupShortcut, freshStart >>
         ELSE /\ startupValue' = storeCache
              /\ startupShortcut' = LoadShortcut(storeCache)
              /\ IF accepted /\ LoadShortcut(storeCache) \notin registered
                   THEN /\ registered' = registered \cup {LoadShortcut(storeCache)}
                        /\ current' = LoadShortcut(storeCache)
                        /\ freshStart' = TRUE
                        /\ pc' = "running"
                        /\ UNCHANGED abortCause
                   ELSE /\ pc' = "aborted"
                        /\ abortCause' = "register"
                        /\ UNCHANGED << registered, current, freshStart >>
  /\ UNCHANGED << dev, portVars, sidecarVars, storeVars, upc, callVars, lastResult,
                  lastUpdateOk, ev, readVars, restarts >>

\* -------------------------------------------------------- sidecar output task
\* CommandEvent::Stdout / Stderr: the line is logged.
DrainOutput ==
  /\ drain = "running"
  /\ childAlive
  /\ pc \in {"shortcut", "running"}
  /\ \E sev \in {"info", "warn"} : lastLog' = sev
  /\ lastLog' # lastLog
  /\ UNCHANGED << pc, dev, portVars, child, spawned, childEnvPort, childAlive, drain,
                  killRequests, exitRuns, registered, current, storeVars, startupVars,
                  freshStart, upc, callVars, lastResult, lastUpdateOk, ev, readVars, restarts >>

\* The backend process ends by itself.
ChildExits ==
  /\ childAlive
  /\ pc \in {"shortcut", "running"}
  /\ childAlive' = FALSE
  /\ UNCHANGED << pc, dev, portVars, child, spawned, childEnvPort, drain, lastLog,
                  killRequests, exitRuns, registered, current, storeVars, startupVars,
                  freshStart, upc, callVars, lastResult, lastUpdateOk, ev, readVars, restarts >>

\* CommandEvent::Terminated: logged, the loop breaks. SidecarState is not touched.
DrainTerminated ==
  /\ drain = "running"
  /\ ~childAlive
  /\ pc \in {"shortcut", "running", "exiting"}
  /\ drain' = "stopped"
  /\ UNCHANGED << pc, dev, portVars, child, spawned, childEnvPort, childAlive, lastLog,
                  killRequests, exitRuns, registered, current, storeVars, startupVars,
                  freshStart, upc, callVars, lastResult, lastUpdateOk, ev, readVars, restarts >>

\* ------------------------------------------------------- RunEvent::Exit handler
\* Option::take on SidecarState.child: the value left in the mutex.
peek(c) == c

take(c) == "None"

\* state.child.lock().unwrap().take(); if Some(child) { let _ = child.kill(); }
ExitHandler ==
  /\ pc \in {"running", "exiting"}
  /\ upc = "idle"
  /\ exitRuns < MaxExits
  /\ exitRuns' = exitRuns + 1
  /\ pc' = "exiting"
  /\ ev' = NoEvent
  /\ child' = take(child)
  /\ IF child = "Some"
       THEN /\ killRequests' = killRequests + 1
            /\ childAlive' = FALSE
       ELSE UNCHANGED << killRequests, childAlive >>
  /\ UNCHANGED << dev, portVars, spawned, childEnvPort, drain, lastLog, registered, current,
                  storeVars, startupVars, freshStart, upc, callVars, lastResult,
                  lastUpdateOk, readVars, restarts >>

\* ------------------------------------------------------------ get_backend_port
get_backend_port_initial == FixedPort

get_backend_port == portState

GetBackendPort ==
  /\ pc \in {"start", "spawn", "shortcut", "running"}
  /\ hasRead' = TRUE
  /\ lastRead' = get_backend_port
  /\ lastReadWrites' = portWrites
  /\ << hasRead', lastRead', lastReadWrites' >> # << hasRead, lastRead, lastReadWrites >>
  /\ UNCHANGED << pc, dev, portVars, sidecarVars, registered, current, storeVars, startupVars,
                  freshStart, upc, callVars, lastResult, lastUpdateOk, ev, restarts >>

\* ------------------------------------------------------------------ key events
\* The user presses or releases a key combination: the one registered now, the
\* one registered when the last update began, or the one startup registered.
\* Every handler registered for it runs.
KeyEvent ==
  /\ pc = "running"
  /\ \E s \in registered \cup prevRegistered \cup {startupShortcut}, st \in {"Pressed", "Released"} :
       ev' = [valid |-> TRUE, shortcut |-> s, state |-> st,
              emitted |-> Cardinality(registered \cap {s}) * HandlerEmits(st),
              current |-> current]
  /\ ev' # ev
  /\ UNCHANGED << pc, dev, portVars, sidecarVars, registered, current, storeVars, startupVars,
                  freshStart, upc, callVars, lastResult, lastUpdateOk, readVars, restarts >>

\* ------------------------------------------------------------ update_shortcut
\* global_shortcut.unregister_all(): the registrations left when it succeeds.
unregister_none(regs) == regs

unregister_all(regs) == {}

\* parse_modifiers, parse_key(&key).ok_or("Invalid key")?
UpdateCall ==
  /\ pc = "running"
  /\ upc = "idle"
  /\ callSeq < MaxUpdates
  /\ \E modifiers \in ModifierInputs, key \in KeyInputs :
       /\ callMods' = modifiers
       /\ callKey' = key
       /\ IF parse_key(key) = NoCode
            THEN /\ lastResult' = "Invalid key"
                 /\ UNCHANGED << upc, newShortcut, freshStart, lastUpdateOk >>
            ELSE /\ newShortcut' = Shortcut(parse_modifiers(modifiers), parse_key(key))
                 /\ upc' = "unregister"
                 /\ lastResult' = "pending"
                 /\ freshStart' = FALSE
                 /\ lastUpdateOk' = NoShortcut
  /\ callSeq' = callSeq + 1
  /\ ev' = NoEvent
  /\ prevRegistered' = registered
  /\ prevDisk' = storeDisk
  /\ prevCache' = storeCache
  /\ UNCHANGED << pc, dev, portVars, sidecarVars, registered, current, storeVars,
                  startupVars, readVars, restarts >>

\* global_shortcut.unregister_all().map_err(..)?
UpdateUnregisterAll ==
  /\ upc = "unregister"
  /\ \E ok \in BOOLEAN :
       IF ok
         THEN /\ registered' = unregister_all(registered)
              /\ current' = NoShortcut
              /\ upc' = "register"
              /\ UNCHANGED lastResult
         ELSE /\ lastResult' = "unregister_err"
              /\ upc' = "idle"
              /\ UNCHANGED << registered, current >>
  /\ UNCHANGED << pc, dev, portVars, sidecarVars, storeVars, startupVars, freshStart,
                  callVars, lastUpdateOk, ev, readVars, restarts >>

\* global_shortcut.on_shortcut(new_shortcut, handler).map_err(..)?
UpdateRegister ==
  /\ upc = "register"
  /\ \E accepted \in BOOLEAN :
       IF accepted /\ newShortcut \notin registered
         THEN /\ registered' = registered \cup {newShortcut}
              /\ current' = newShortcut
              /\ upc' = "persist"
              /\ UNCHANGED lastResult
         ELSE /\ lastResult' = "register_err"
              /\ upc' = "idle"
              /\ UNCHANGED << registered, current >>
  /\ UNCHANGED << pc, dev, portVars, sidecarVars, storeVars, startupVars, freshStart,
                  callVars, lastUpdateOk, ev, readVars, restarts >>

\* app.store(..)?, store.set(SHORTCUTS_KEY, to_value(settings)), store.save()?, Ok(())
UpdatePersist ==
  /\ upc = "persist"
  /\ \E outcome \in {"store_err", "save_err", "ok"} :
       /\ storeCache' = IF outcome = "store_err" THEN storeCache
                        ELSE SettingsValue(callMods, callKey)
       /\ storeDisk' = IF outcome = "ok" THEN SettingsValue(callMods, callKey)
                       ELSE storeDisk
       /\ lastResult' = outcome
       /\ lastUpdateOk' = IF outcome = "ok" THEN newShortcut ELSE lastUpdateOk
  /\ upc' = "idle"
  /\ UNCHANGED << pc, dev, portVars, sidecarVars, registered, current, startupVars,
                  freshStart, callVars, ev, readVars, restarts >>

\* ------------------------------------------------------------------- restart
\* The process is gone (setup failed, or the Exit handler ran); the application
\* is launched again. Only settings.json survives; the OS has dropped the
\* registrations of the dead process.
Restart ==
  /\ \/ pc = "aborted"
     \/ pc = "exiting" /\ exitRuns >= 1
  /\ restarts < MaxRestarts
  /\ restarts' = restarts + 1
  /\ pc' = "start"
  /\ port' = FixedPort
  /\ portState' = FixedPort
  /\ portWrites' = 0
  /\ child' = "None"
  /\ spawned' = FALSE
  /\ childEnvPort' = FixedPort
  /\ childAlive' = FALSE
  /\ drain' = "none"
  /\ lastLog' = "none"
  /\ killRequests' = 0
  /\ exitRuns' = 0
  /\ registered' = {}
  /\ current' = NoShortcut
  /\ storeCache' = storeDisk
  /\ storeDisk' = storeDisk
  /\ abortCause' = "none"
  /\ startupValue' = AbsentValue
  /\ startupShortcut' = NoShortcut
  /\ freshStart' = FALSE
  /\ upc' = "idle"
  /\ newShortcut' = NoShortcut
  /\ lastResult' = "none"
  /\ prevRegistered' = {}
  /\ prevDisk' = storeDisk
  /\ prevCache' = storeDisk
  /\ ev' = NoEvent
  /\ hasRead' = FALSE
  /\ lastRead' = FixedPort
  /\ lastReadWrites' = 0
  /\ UNCHANGED << dev, callSeq, callMods, callKey, lastUpdateOk >>

Next ==
  \/ SelectPort
  \/ SpawnSidecar
  \/ RegisterStartupShortcut
  \/ DrainOutput
  \/ ChildExits
  \/ DrainTerminated
  \/ ExitHandler
  \/ GetBackendPort
  \/ KeyEvent
  \/ UpdateCall
  \/ UpdateUnregisterAll
  \/ UpdateRegister
  \/ UpdatePersist
  \/ Restart

Spec == Init /\ [][Next]_vars

\* The shortcut manager alone, in a debug build: GetBackendPort and the output
\* task read and write no variable the shortcut actions read.
InitHotkey == Init /\ dev

NextHotkey ==
  \/ SelectPort
  \/ SpawnSidecar
  \/ RegisterStartupShortcut
  \/ ExitHandler
  \/ KeyEvent
  \/ UpdateCall
  \/ UpdateUnregisterAll
  \/ UpdateRegister
  \/ UpdatePersist
  \/ Restart

SpecHotkey == InitHotkey /\ [][NextHotkey]_vars

\* The sidecar supervisor and the port alone, with no stored shortcut:
\* update_shortcut and key events read and write no variable these actions read.
InitSidecar == Init /\ storeDisk = AbsentValue

NextSidecar ==
  \/ SelectPort
  \/ SpawnSidecar
  \/ RegisterStartupShortcut
  \/ DrainOutput
  \/ ChildExits
  \/ DrainTerminated
  \/ ExitHandler
  \/ GetBackendPort
  \/ Restart

SpecSidecar == InitSidecar /\ [][NextSidecar]_vars

\* ===================================================================== claims
\* A key token of the documented grammar: F1-F12 or one letter A-Z, in any case.
IsKeyToken(k) == to_uppercase(k) \in FunctionKeyNames \cup LetterKeyNames

\* C1: at every point, also between the unregister and register steps of an
\* update, at most one OS-level registration for toggle_recording exists.
AtMostOneRegistration == Cardinality(registered) <= 1

\* An update replaced the binding startup registered: the new one is the only one.
ReplacedRegistration ==
  /\ upc = "persist"
  /\ prevRegistered # {}
  /\ registered = {newShortcut}
  /\ registered # prevRegistered

\* C2 (as claimed): when the OS rejects the new shortcut, update_shortcut returns
\* an error and the registration and the persisted record are as before the call.
FailedRegistrationKeepsBinding ==
  lastResult = "register_err" =>
    /\ registered = prevRegistered
    /\ storeDisk = prevDisk

\* C3: a key token that is neither F1-F12 nor a letter is answered with
\* "Invalid key", and registration and store are as before the call.
InvalidKeyRejected ==
  (lastResult # "none" /\ ~IsKeyToken(callKey)) =>
    /\ lastResult = "Invalid key"
    /\ upc = "idle"
    /\ registered = prevRegistered
    /\ storeDisk = prevDisk
    /\ storeCache = prevCache

\* update([Alt], "1") was rejected with the default Alt+F5 still registered.
InvalidKeyKeepsDefault ==
  /\ lastResult = "Invalid key"
  /\ callKey = <<"1">>
  /\ registered = {DefaultShortcut}
  /\ storeDisk = AbsentValue

\* C4: a run of the Exit handler leaves the handle empty; over all runs the
\* child gets at most one kill request; a second run changes nothing.
TerminateIdempotent ==
  [][ exitRuns' = exitRuns + 1 =>
        /\ child' = "None"
        /\ killRequests' <= 1
        /\ exitRuns >= 1 =>
             /\ killRequests' = killRequests
             /\ child' = child
             /\ childAlive' = childAlive ]_vars

\* The Exit handler ran twice on a spawned child: one kill request.
ExitedTwice ==
  /\ exitRuns = 2
  /\ spawned
  /\ killRequests = 1
  /\ child = "None"

\* C5 (as claimed): once the output task has seen the termination notice, the
\* handle is cleared, and a later run of the Exit handler issues no kill request.
TerminationNoticeMakesExitNoop ==
  [][ (drain = "stopped" /\ exitRuns' = exitRuns + 1) =>
        /\ child = "None"
        /\ killRequests' = killRequests ]_vars

\* C6 (as claimed): when the stored binding is absent, does not deserialize, or
\* has an unrecognized key token, startup registers exactly Alt+F5.
DefaultOnUnparsable ==
  (startupShortcut # NoShortcut
     /\ (startupValue.kind # "settings" \/ ~IsKeyToken(startupValue.key))) =>
    startupShortcut = DefaultShortcut

\* C7: after an update_shortcut that returned Ok, the next start of the
\* application registers the shortcut that update registered.
RoundTripAcrossRestart ==
  (pc = "running" /\ freshStart /\ lastUpdateOk # NoShortcut) =>
    /\ startupShortcut = lastUpdateOk
    /\ registered = {lastUpdateOk}

\* update([Ctrl, Shift], "a") succeeded and the restarted application runs.
RestartedWithCtrlShiftA ==
  /\ pc = "running"
  /\ restarts >= 1
  /\ freshStart
  /\ lastUpdateOk = Shortcut({"CONTROL", "SHIFT"}, <<"Key", "A">>)
  /\ callMods = <<Ctrl, Shift>>
  /\ callKey = <<"a">>

\* C8: a Pressed transition of the active shortcut emits exactly one
\* toggle_recording event; a release, or a press of a replaced binding, emits none.
PressEmitsOnce ==
  ev.valid =>
    ev.emitted = (IF ev.state = "Pressed" /\ ev.shortcut = ev.current THEN 1 ELSE 0)

\* The shortcut installed by an update, not the startup one, was pressed.
PressedUpdatedShortcut ==
  /\ ev.valid
  /\ ev.state = "Pressed"
  /\ ev.emitted = 1
  /\ lastResult = "ok"
  /\ ev.shortcut = newShortcut
  /\ ev.shortcut # startupShortcut

\* C9 (as claimed): failures of the external settings store aside, setup aborts
\* only when the backend child cannot be spawned; in particular a shortcut
\* registration the OS rejects never aborts the application.
OnlySpawnAborts == pc = "aborted" => abortCause \in {"spawn", "store"}

\* C10 (as claimed): the port is written once, and every read through
\* get_backend_port returns the port given to the child.
EveryReadIsChildPort ==
  /\ portWrites <= 1
  /\ (hasRead /\ spawned) => lastRead = childEnvPort

\* C10 (amended): the port is written once, before the child is spawned; a read
\* made after that write returns the port given to the child, a read made
\* before it returns the initial 8765.
ReadAfterWriteIsChildPort ==
  /\ portWrites <= 1
  /\ spawned => portWrites = 1
  /\ (hasRead /\ lastReadWrites = 1 /\ spawned) => lastRead = childEnvPort
  /\ (hasRead /\ lastReadWrites = 0) => lastRead = FixedPort

\* A release build read an OS-assigned port after the child got it.
ReadEphemeralPort ==
  /\ hasRead
  /\ lastReadWrites = 1
  /\ spawned
  /\ lastRead \in EphemeralPorts
  /\ lastRead = childEnvPort
====
